---- MODULE Spec2Model ----
(***************************************************************************)
(* Sleep Health dashboards: SleepHealth_Analysis_Main.py (four filters,    *)
(* theme store, five callbacks) and test2.py (one gender filter, one       *)
(* callback).  The shared table df is built once; every callback filters   *)
(* a copy of it by the current dropdown values, aggregates the filtered    *)
(* rows and returns its result.                                            *)
(*                                                                         *)
(* Numbers: sleep_duration is held in tenths of an hour (65 is 6.5 h), so  *)
(* a mean is the exact fraction num/den; NaN is the mean of no rows.       *)
(* Every comparison with NaN is false, as in IEEE 754 and pandas.          *)
(***************************************************************************)
EXTENDS Integers, Sequences, FiniteSets, TLC

VARIABLES phase, dataset, df, filters, tab, theme_store, app_style, theme_toggle, out,
          requests, files, loader, clicks

\* dataset is the table as startup left it: what the spec calls the Dataset
\* requests are the callbacks the server is running at the same time
\* files is what the two input paths hold; loader is the program that was
\* started, the path it read and the table it got; clicks is the n_clicks
\* property of the theme button (0 for None)
vars == <<phase, dataset, df, filters, tab, theme_store, app_style, theme_toggle, out,
         requests, files, loader, clicks>>

(***************************************************************************)
(* Bounds of the model.                                                    *)
(***************************************************************************)
\* longest Dataset drawn from Pool
MaxRecords == 2
\* largest age given to the Derived Column Builder
MaxAge == 130
\* longest table given to the Insight Classifier on its own
MaxRows == 10

NaN == "NaN"

(***************************************************************************)
(* The input file.  A path holds nothing, a file read_csv cannot parse, or *)
(* a table, known here by where it came from, its columns and, for a       *)
(* synthesized one, its number of rows.                                    *)
(***************************************************************************)
RecordAttributes ==
    {"age", "gender", "occupation", "sleep_duration", "quality_of_sleep",
     "stress_level", "physical_activity_level", "heart_rate", "daily_steps",
     "sleep_disorder", "bmi_category"}

Absent == [kind |-> "absent"]
Malformed == [kind |-> "malformed"]
NoTable == [kind |-> "none"]

\* sleep_health_cleaned_for_dashboard.csv as the repository expects it
CsvFile == [kind |-> "table", origin |-> "csv", columns |-> RecordAttributes]

\* the state of a dashboard that read the file at the primary path
LoadedFromFile ==
    /\ files = [primary |-> CsvFile, data |-> Absent]
    /\ loader = [program |-> "Main", data_path |-> "primary", table |-> CsvFile,
                 synthesized |-> FALSE, error |-> "none"]
    /\ clicks = 0

\* Python's None: the value of a cleared dropdown
PyNone == "<None>"

(***************************************************************************)
(* pd.cut(df['age'], bins=[0, 30, 40, 50, 60, 100], labels=[...]) with the *)
(* default right=True: bin i is the interval (Bins[i], Bins[i+1]].         *)
(***************************************************************************)
Bins == <<0, 30, 40, 50, 60, 100>>

Labels == <<"Under 30", "30-40", "40-50", "50-60", "Over 60">>

\* mutant: bins closed on the left, open on the right (right=False)
InBinLeftClosed(age, i) == Bins[i] <= age /\ age < Bins[i + 1]

InBin(age, i) == Bins[i] < age /\ age <= Bins[i + 1]

\* the labels of the bins that hold the age
LabelsOf(age) == {Labels[i] : i \in {j \in 1..Len(Labels) : InBin(age, j)}}

\* the age_group value of a row: the label of its bin, NaN outside every bin
age_group(age) ==
    IF LabelsOf(age) = {} THEN NaN ELSE CHOOSE l \in LabelsOf(age) : TRUE

\* df['age_group'] = pd.cut(...): the column is added to every row
WithAgeGroups(raw) ==
    [i \in 1..Len(raw) |->
        [age |-> raw[i].age,
         gender |-> raw[i].gender,
         occupation |-> raw[i].occupation,
         sleep_duration |-> raw[i].sleep_duration,
         quality_of_sleep |-> raw[i].quality_of_sleep,
         stress_level |-> raw[i].stress_level,
         physical_activity_level |-> raw[i].physical_activity_level,
         heart_rate |-> raw[i].heart_rate,
         daily_steps |-> raw[i].daily_steps,
         sleep_disorder |-> raw[i].sleep_disorder,
         bmi_category |-> raw[i].bmi_category,
         age_group |-> age_group(raw[i].age)]]

(***************************************************************************)
(* The rows a Dataset is drawn from: the three Records of the end-to-end   *)
(* scenario, and a Record whose age lies outside every bin and whose       *)
(* values sit on the tier and threshold boundaries.                        *)
(***************************************************************************)
Row(a, g, o, sd, q, s, p, hr, st, d, b) ==
    [age |-> a, gender |-> g, occupation |-> o, sleep_duration |-> sd,
     quality_of_sleep |-> q, stress_level |-> s,
     physical_activity_level |-> p, heart_rate |-> hr, daily_steps |-> st,
     sleep_disorder |-> d, bmi_category |-> b]

Pool ==
    { Row(25, "Male", "Doctor", 50, 3, 9, 20, 78, 4000, "Insomnia", "Overweight"),
      Row(35, "Female", "Nurse", 80, 8, 2, 80, 65, 9000, "None", "Normal"),
      Row(45, "Male", "Nurse", 65, 6, 6, 40, 70, 6000, "None", "Normal Weight"),
      Row(101, "Female", "Doctor", 70, 7, 7, 50, 72, 10000, "Sleep Apnea", "Obese") }

RECURSIVE SeqsUpTo(_, _)
SeqsUpTo(S, n) ==
    IF n = 0 THEN {<<>>}
    ELSE LET shorter == SeqsUpTo(S, n - 1)
         IN  shorter \cup {Append(s, x) : s \in {t \in shorter : Len(t) = n - 1}, x \in S}

RawDatasets == SeqsUpTo(Pool, MaxRecords)

\* one-row tables, one for every age up to MaxAge
RawAgeTables ==
    { <<Row(a, "Male", "Doctor", 70, 7, 5, 60, 70, 8000, "None", "Normal")>> : a \in 0..MaxAge }

(***************************************************************************)
(* Dropdown values.                                                        *)
(***************************************************************************)
GenderValues == {"All", "Male", "Female", PyNone}
AgeGroupValues == {"All", "Under 30", "30-40", "Over 60"}
OccupationValues == {"All", "Doctor", "Nurse"}
DisorderValues == {"All", "None", "Insomnia"}
TabValues == {"stress", "activity", "bmi"}

FilterSpecs ==
    [gender : GenderValues, age_group : AgeGroupValues,
     occupation : OccupationValues, disorder : DisorderValues]

AllFilters ==
    [gender |-> "All", age_group |-> "All", occupation |-> "All", disorder |-> "All"]

NoOutput == [cb |-> "none"]

(***************************************************************************)
(* Themes: the colours a callback picks by the theme store's value.        *)
(***************************************************************************)
light_theme ==
    [background |-> "#f8fafc", card |-> "#ffffff", text |-> "#334155",
     accent1 |-> "#0072B2", accent2 |-> "#009E73", accent3 |-> "#CC79A7",
     accent4 |-> "#E69F00", accent5 |-> "#56B4E9", muted |-> "#94a3b8"]

dark_theme ==
    [background |-> "#1e293b", card |-> "#334155", text |-> "#f1f5f9",
     accent1 |-> "#56B4E9", accent2 |-> "#009E73", accent3 |-> "#CC79A7",
     accent4 |-> "#F0E442", accent5 |-> "#D55E00", muted |-> "#cbd5e1"]

ThemeColors(theme) == IF theme = "dark" THEN dark_theme ELSE light_theme

(***************************************************************************)
(* State after the module has run: df is loaded and carries age_group, the *)
(* dropdowns show "All", the first tab is open, the theme store is 'light'.*)
(***************************************************************************)
Init ==
    /\ phase = "serving"
    /\ df \in {WithAgeGroups(raw) : raw \in RawDatasets}
    /\ dataset = df
    /\ filters = AllFilters
    /\ tab = "stress"
    /\ theme_store = "light"
    /\ app_style = light_theme
    /\ theme_toggle = "Dark Mode"
    /\ out = NoOutput
    /\ requests = <<>>
    /\ LoadedFromFile

(***************************************************************************)
(* Filter Engine: the same eight lines open every callback of the          *)
(* four-filter dashboard.  A boolean mask keeps the rows in table order.   *)
(***************************************************************************)
\* elementwise ==: a missing value equals nothing
Eq(x, v) == x # NaN /\ v # NaN /\ x = v

\* mutant: the mask keeps the rows that differ (!= for ==)
KeepOthers(rows, col, v) ==
    LET Test(r) == ~Eq(r[col], v)
    IN  SelectSeq(rows, Test)

\* filtered_df[filtered_df[col] == v]
Keep(rows, col, v) ==
    LET Test(r) == Eq(r[col], v)
    IN  SelectSeq(rows, Test)

\* mutant: the masks are combined with OR instead of being applied in turn
FilterRowsAny(table, f) ==
    LET Test(r) ==
            \/ f.gender # "All" /\ Eq(r.gender, f.gender)
            \/ f.age_group # "All" /\ Eq(r.age_group, f.age_group)
            \/ f.occupation # "All" /\ Eq(r.occupation, f.occupation)
            \/ f.disorder # "All" /\ Eq(r.sleep_disorder, f.disorder)
            \/ f = AllFilters
    IN  SelectSeq(table, Test)

\* mutant: rows without an age_group are dropped before filtering
FilterRowsDropNa(table, f) ==
    LET Known(r) == r.age_group # NaN
        t0 == SelectSeq(table, Known)
        t1 == IF f.gender # "All" THEN Keep(t0, "gender", f.gender) ELSE t0
        t2 == IF f.age_group # "All" THEN Keep(t1, "age_group", f.age_group) ELSE t1
        t3 == IF f.occupation # "All" THEN Keep(t2, "occupation", f.occupation) ELSE t2
    IN  IF f.disorder # "All" THEN Keep(t3, "sleep_disorder", f.disorder) ELSE t3

FilterRows(table, f) ==
    LET t1 == IF f.gender # "All" THEN Keep(table, "gender", f.gender) ELSE table
        t2 == IF f.age_group # "All" THEN Keep(t1, "age_group", f.age_group) ELSE t1
        t3 == IF f.occupation # "All" THEN Keep(t2, "occupation", f.occupation) ELSE t2
    IN  IF f.disorder # "All" THEN Keep(t3, "sleep_disorder", f.disorder) ELSE t3

\* test2.py: df if gender in (None, "All") else df[df['gender'] == gender]
FilterByGender(table, gender) ==
    IF gender \in {PyNone, "All"} THEN table ELSE Keep(table, "gender", gender)

(***************************************************************************)
(* Aggregate Engine: Series.mean() and (mask).mean() * 100.                *)
(***************************************************************************)
RECURSIVE Sum(_, _)
Sum(rows, col) ==
    IF Len(rows) = 0 THEN 0 ELSE rows[1][col] + Sum(Tail(rows), col)

NaNMean == [nan |-> TRUE, num |-> 0, den |-> 1]

\* the mean of a column whose entries count `unit` to one (10 for tenths)
Mean(rows, col, unit) ==
    IF Len(rows) = 0 THEN NaNMean
    ELSE [nan |-> FALSE, num |-> Sum(rows, col), den |-> unit * Len(rows)]

\* (mask).mean() * 100, for a mask that is True on `selected` of the rows
Pct(rows, selected) ==
    IF Len(rows) = 0 THEN NaNMean
    ELSE [nan |-> FALSE, num |-> 100 * Len(selected), den |-> Len(rows)]

\* comparisons of a mean with a number; each is false on NaN
Lt(m, k) == ~m.nan /\ m.num < k * m.den
Gt(m, k) == ~m.nan /\ m.num > k * m.den
Ge(m, k) == ~m.nan /\ m.num >= k * m.den
Le(m, k) == ~m.nan /\ m.num <= k * m.den

HasDisorder(r) == r.sleep_disorder # "None"
\* mutant: stress_level 7 counts as high (>= for >)
HighStressInclusive(r) == r.stress_level >= 7
HighStress(r) == r.stress_level > 7
LowActivity(r) == r.physical_activity_level < 50

(***************************************************************************)
(* Insight Classifier: the if/elif/else ladders of                         *)
(* update_personalized_insights, by the heading each branch appends.       *)
(***************************************************************************)
\* mutant: the bounds 6 and 7 belong to the lower tier (<= for <)
DurationTierInclusive(avg_sleep) ==
    IF Le(avg_sleep, 6) THEN "Sleep Duration Alert"
    ELSE IF Le(avg_sleep, 7) THEN "Sleep Duration Concern"
    ELSE "Healthy Sleep Duration"

DurationTier(avg_sleep) ==
    IF Lt(avg_sleep, 6) THEN "Sleep Duration Alert"
    ELSE IF Lt(avg_sleep, 7) THEN "Sleep Duration Concern"
    ELSE "Healthy Sleep Duration"

\* mutant: the bounds 5 and 7 belong to the lower tier (<= for <)
QualityTierInclusive(avg_quality) ==
    IF Le(avg_quality, 5) THEN "Poor Sleep Quality"
    ELSE IF Le(avg_quality, 7) THEN "Moderate Sleep Quality"
    ELSE "Good Sleep Quality"

QualityTier(avg_quality) ==
    IF Lt(avg_quality, 5) THEN "Poor Sleep Quality"
    ELSE IF Lt(avg_quality, 7) THEN "Moderate Sleep Quality"
    ELSE "Good Sleep Quality"

\* mutant: a percentage equal to its threshold warns too (>= for >)
WarningsInclusive(high_stress_pct, low_activity_pct, sleep_disorders_pct) ==
    (IF Ge(high_stress_pct, 50) THEN <<"High Stress Levels">> ELSE <<>>)
    \o (IF Ge(low_activity_pct, 60) THEN <<"Low Physical Activity">> ELSE <<>>)
    \o (IF Ge(sleep_disorders_pct, 30) THEN <<"Sleep Disorders Present">> ELSE <<>>)

\* the three conditional warnings, in the order the code appends them
Warnings(high_stress_pct, low_activity_pct, sleep_disorders_pct) ==
    (IF Gt(high_stress_pct, 50) THEN <<"High Stress Levels">> ELSE <<>>)
    \o (IF Gt(low_activity_pct, 60) THEN <<"Low Physical Activity">> ELSE <<>>)
    \o (IF Gt(sleep_disorders_pct, 30) THEN <<"Sleep Disorders Present">> ELSE <<>>)

\* mutant: the warnings are appended before the two tiers
InsightsWarningsFirst(avg_sleep, avg_quality, high_stress_pct, low_activity_pct, sleep_disorders_pct) ==
    Warnings(high_stress_pct, low_activity_pct, sleep_disorders_pct)
    \o <<DurationTier(avg_sleep), QualityTier(avg_quality)>>

Insights(avg_sleep, avg_quality, high_stress_pct, low_activity_pct, sleep_disorders_pct) ==
    <<DurationTier(avg_sleep), QualityTier(avg_quality)>>
    \o Warnings(high_stress_pct, low_activity_pct, sleep_disorders_pct)

(***************************************************************************)
(* Callbacks of SleepHealth_Analysis_Main.py.  Each reads the dropdowns    *)
(* and the theme store, filters a copy of df and returns; out holds what   *)
(* the call returned (raised: it ended in an exception instead).           *)
(***************************************************************************)
\* mutant: the filters are applied to the global df, which keeps the subset
update_summary_cards_inplace ==
    /\ phase = "serving"
    /\ LET theme_colors == ThemeColors(theme_store)
           filtered_df == FilterRows(df, filters)
           avg_sleep == Mean(filtered_df, "sleep_duration", 10)
           avg_quality == Mean(filtered_df, "quality_of_sleep", 1)
           avg_stress == Mean(filtered_df, "stress_level", 1)
           avg_activity == Mean(filtered_df, "physical_activity_level", 1)
       IN  /\ df' = filtered_df
           /\ out' = [cb |-> "update_summary_cards",
                      raised |-> FALSE,
                      filtered |-> filtered_df,
                      avg_sleep |-> avg_sleep,
                      avg_quality |-> avg_quality,
                      avg_stress |-> avg_stress,
                      avg_activity |-> avg_activity,
                      colors |-> <<theme_colors.accent1, theme_colors.accent2,
                                   theme_colors.accent4, theme_colors.accent3>>]
    /\ UNCHANGED <<files, loader, clicks, requests, phase, dataset, filters, tab, theme_store, app_style, theme_toggle>>

update_summary_cards ==
    /\ phase = "serving"
    /\ LET theme_colors == ThemeColors(theme_store)
           filtered_df == FilterRows(df, filters)
           avg_sleep == Mean(filtered_df, "sleep_duration", 10)
           avg_quality == Mean(filtered_df, "quality_of_sleep", 1)
           avg_stress == Mean(filtered_df, "stress_level", 1)
           avg_activity == Mean(filtered_df, "physical_activity_level", 1)
       IN  out' = [cb |-> "update_summary_cards",
                   raised |-> FALSE,
                   filtered |-> filtered_df,
                   avg_sleep |-> avg_sleep,
                   avg_quality |-> avg_quality,
                   avg_stress |-> avg_stress,
                   avg_activity |-> avg_activity,
                   colors |-> <<theme_colors.accent1, theme_colors.accent2,
                                theme_colors.accent4, theme_colors.accent3>>]
    /\ UNCHANGED <<files, loader, clicks, requests, phase, dataset, df, filters, tab, theme_store, app_style, theme_toggle>>

update_sleep_patterns ==
    /\ phase = "serving"
    /\ LET theme_colors == ThemeColors(theme_store)
           filtered_df == FilterRows(df, filters)
       IN  out' = [cb |-> "update_sleep_patterns",
                   raised |-> FALSE,
                   filtered |-> filtered_df,
                   template |-> IF theme_store = "dark" THEN "plotly_dark" ELSE "plotly_white",
                   colors |-> <<theme_colors.accent1, theme_colors.accent2, theme_colors.card>>]
    /\ UNCHANGED <<files, loader, clicks, requests, phase, dataset, df, filters, tab, theme_store, app_style, theme_toggle>>

update_personalized_insights ==
    /\ phase = "serving"
    /\ LET theme_colors == ThemeColors(theme_store)
           filtered_df == FilterRows(df, filters)
           avg_sleep == Mean(filtered_df, "sleep_duration", 10)
           avg_quality == Mean(filtered_df, "quality_of_sleep", 1)
           sleep_disorders_pct == Pct(filtered_df, SelectSeq(filtered_df, HasDisorder))
           high_stress_pct == Pct(filtered_df, SelectSeq(filtered_df, HighStress))
           low_activity_pct == Pct(filtered_df, SelectSeq(filtered_df, LowActivity))
       IN  out' = [cb |-> "update_personalized_insights",
                   raised |-> FALSE,
                   filtered |-> filtered_df,
                   avg_sleep |-> avg_sleep,
                   avg_quality |-> avg_quality,
                   sleep_disorders_pct |-> sleep_disorders_pct,
                   high_stress_pct |-> high_stress_pct,
                   low_activity_pct |-> low_activity_pct,
                   insights |-> Insights(avg_sleep, avg_quality, high_stress_pct,
                                         low_activity_pct, sleep_disorders_pct),
                   colors |-> <<theme_colors.background, theme_colors.text>>]
    /\ UNCHANGED <<files, loader, clicks, requests, phase, dataset, df, filters, tab, theme_store, app_style, theme_toggle>>

(***************************************************************************)
(* groupby(col).agg(mean): one group per distinct key, keys ascending.     *)
(***************************************************************************)
Occupations == <<"Doctor", "Nurse">>

RECURSIVE Ascending(_)
Ascending(S) ==
    IF S = {} THEN <<>>
    ELSE LET m == CHOOSE x \in S : \A y \in S : x <= y
         IN  <<m>> \o Ascending(S \ {m})

AgeKeys(rows) == Ascending({rows[i].age : i \in 1..Len(rows)})

\* filtered_df['occupation'].unique(), in the order groupby sorts the keys
OccupationKeys(rows) ==
    LET Present(o) == \E i \in 1..Len(rows) : rows[i].occupation = o
    IN  SelectSeq(Occupations, Present)

GroupMeans(rows, col, key) ==
    LET Member(r) == r[col] = key
        g == SelectSeq(rows, Member)
    IN  [key |-> key,
         sleep_duration |-> Mean(g, "sleep_duration", 10),
         quality_of_sleep |-> Mean(g, "quality_of_sleep", 1),
         stress_level |-> Mean(g, "stress_level", 1)]

GroupBy(rows, col, keys) == [i \in 1..Len(keys) |-> GroupMeans(rows, col, keys[i])]

\* a >= b for two means that are numbers
GeMean(a, b) == a.num * b.den >= b.num * a.den

\* mutant: ascending=True
SortedByQualityAscending(groups) ==
    LET n == Len(groups)
    IN  { [i \in 1..n |-> groups[p[i]]] :
            p \in { q \in [1..n -> 1..n] :
                      /\ \A i, j \in 1..n : i # j => q[i] # q[j]
                      /\ \A i, j \in 1..n :
                            i < j => GeMean(groups[q[j]].quality_of_sleep,
                                            groups[q[i]].quality_of_sleep) } }

\* sort_values('quality_of_sleep', ascending=False): every order of the groups
\* that descends by mean quality (the sort is not stable, ties fall either way)
SortedByQuality(groups) ==
    LET n == Len(groups)
    IN  { [i \in 1..n |-> groups[p[i]]] :
            p \in { q \in [1..n -> 1..n] :
                      /\ \A i, j \in 1..n : i # j => q[i] # q[j]
                      /\ \A i, j \in 1..n :
                            i < j => GeMean(groups[q[i]].quality_of_sleep,
                                            groups[q[j]].quality_of_sleep) } }

update_trend_analysis ==
    /\ phase = "serving"
    /\ LET theme_colors == ThemeColors(theme_store)
           filtered_df == FilterRows(df, filters)
           age_analysis == GroupBy(filtered_df, "age", AgeKeys(filtered_df))
           occupations == OccupationKeys(filtered_df)
       IN  IF Len(occupations) > 1
           THEN \E occupation_analysis \in
                    SortedByQuality(GroupBy(filtered_df, "occupation", occupations)) :
                  out' = [cb |-> "update_trend_analysis",
                          raised |-> FALSE,
                          filtered |-> filtered_df,
                          age_analysis |-> age_analysis,
                          branch |-> "by_occupation",
                          occupation_analysis |-> occupation_analysis,
                          colors |-> <<theme_colors.accent1, theme_colors.accent2,
                                       theme_colors.accent4>>]
           ELSE IF Len(filtered_df) = 0
           \* filtered_df['occupation'].iloc[0] on no rows: IndexError
           THEN out' = [cb |-> "update_trend_analysis",
                        raised |-> TRUE,
                        filtered |-> filtered_df,
                        branch |-> "single"]
           ELSE out' = [cb |-> "update_trend_analysis",
                        raised |-> FALSE,
                        filtered |-> filtered_df,
                        age_analysis |-> age_analysis,
                        branch |-> "single",
                        selected_occupation |-> filtered_df[1].occupation,
                        overall_avg_quality |-> Mean(df, "quality_of_sleep", 1),
                        overall_avg_stress |-> Mean(df, "stress_level", 1),
                        selected_avg_quality |-> Mean(filtered_df, "quality_of_sleep", 1),
                        selected_avg_stress |-> Mean(filtered_df, "stress_level", 1),
                        colors |-> <<theme_colors.accent1, theme_colors.accent2,
                                     theme_colors.accent4>>]
    /\ UNCHANGED <<files, loader, clicks, requests, phase, dataset, df, filters, tab, theme_store, app_style, theme_toggle>>

(***************************************************************************)
(* update_factor_content: one chart set per tab; the BMI tab relabels      *)
(* bmi_category in its filtered copy before plotting.                      *)
(***************************************************************************)
\* Series.replace({'Normal': 'Underweight', 'Normal Weight': 'Normal'})
ReplaceBmi(b) ==
    IF b = "Normal" THEN "Underweight"
    ELSE IF b = "Normal Weight" THEN "Normal"
    ELSE b

Relabelled(rows) ==
    [i \in 1..Len(rows) |-> [rows[i] EXCEPT !.bmi_category = ReplaceBmi(@)]]

\* mutant: filtered_df = df without .copy(), so the BMI relabelling writes df
update_factor_content_inplace ==
    /\ phase = "serving"
    /\ LET theme_colors == ThemeColors(theme_store)
           filtered_df == FilterRows(df, filters)
       IN  /\ out' = [cb |-> "update_factor_content",
                      raised |-> FALSE,
                      filtered |-> filtered_df,
                      tab |-> tab,
                      plotted |-> IF tab \in {"stress", "activity"}
                                  THEN filtered_df ELSE Relabelled(filtered_df),
                      template |-> IF theme_store = "dark" THEN "plotly_dark" ELSE "plotly_white",
                      colors |-> <<theme_colors.accent1, theme_colors.background,
                                   theme_colors.text>>]
           /\ df' = IF tab \in {"stress", "activity"} \/ filtered_df # df
                    THEN df ELSE Relabelled(df)
    /\ UNCHANGED <<files, loader, clicks, requests, phase, dataset, filters, tab, theme_store, app_style, theme_toggle>>

update_factor_content ==
    /\ phase = "serving"
    /\ LET theme_colors == ThemeColors(theme_store)
           filtered_df == FilterRows(df, filters)
       IN  out' = [cb |-> "update_factor_content",
                   raised |-> FALSE,
                   filtered |-> filtered_df,
                   tab |-> tab,
                   plotted |-> IF tab \in {"stress", "activity"}
                               THEN filtered_df ELSE Relabelled(filtered_df),
                   template |-> IF theme_store = "dark" THEN "plotly_dark" ELSE "plotly_white",
                   colors |-> <<theme_colors.accent1, theme_colors.background,
                                theme_colors.text>>]
    /\ UNCHANGED <<files, loader, clicks, requests, phase, dataset, df, filters, tab, theme_store, app_style, theme_toggle>>

(***************************************************************************)
(* toggle_theme: no click yet (n_clicks is None, written 0 here) updates   *)
(* nothing; a click flips the store and sets the container style and the   *)
(* button label.                                                           *)
(***************************************************************************)
\* mutant: a click always stores 'dark'
toggle_theme_to_dark(n_clicks) ==
    /\ phase = "serving"
    /\ IF n_clicks = 0
       THEN UNCHANGED <<theme_store, app_style, theme_toggle, out>>
       ELSE /\ theme_store' = "dark"
            /\ app_style' = dark_theme
            /\ theme_toggle' = "Light Mode"
            /\ out' = NoOutput
    /\ UNCHANGED <<files, loader, requests, phase, dataset, df, filters, tab>>

toggle_theme(n_clicks) ==
    /\ phase = "serving"
    /\ IF n_clicks = 0
       THEN UNCHANGED <<theme_store, app_style, theme_toggle, out>>
       ELSE /\ theme_store' = IF theme_store = "light" THEN "dark" ELSE "light"
            /\ app_style' = IF theme_store = "light" THEN dark_theme ELSE light_theme
            /\ theme_toggle' = IF theme_store = "light" THEN "Light Mode" ELSE "Dark Mode"
            /\ out' = NoOutput
    /\ UNCHANGED <<files, loader, requests, phase, dataset, df, filters, tab>>

(***************************************************************************)
(* test2.py, the single-filter dashboard: its one callback.                *)
(***************************************************************************)
update_dashboard ==
    /\ phase = "serving"
    /\ out' = [cb |-> "update_dashboard",
               raised |-> FALSE,
               filtered |-> FilterByGender(df, filters.gender)]
    /\ UNCHANGED <<files, loader, clicks, requests, phase, dataset, df, filters, tab, theme_store, app_style, theme_toggle>>

(***************************************************************************)
(* The user: a dropdown or the tab bar takes another value.  The outputs   *)
(* that depend on it are requested again, so what was shown is dropped.    *)
(***************************************************************************)
SelectGender(v) ==
    /\ phase = "serving"
    /\ v # filters.gender
    /\ filters' = [filters EXCEPT !.gender = v]
    /\ out' = NoOutput
    /\ UNCHANGED <<files, loader, clicks, requests, phase, dataset, df, tab, theme_store, app_style, theme_toggle>>

SelectAgeGroup(v) ==
    /\ phase = "serving"
    /\ v # filters.age_group
    /\ filters' = [filters EXCEPT !.age_group = v]
    /\ out' = NoOutput
    /\ UNCHANGED <<files, loader, clicks, requests, phase, dataset, df, tab, theme_store, app_style, theme_toggle>>

SelectOccupation(v) ==
    /\ phase = "serving"
    /\ v # filters.occupation
    /\ filters' = [filters EXCEPT !.occupation = v]
    /\ out' = NoOutput
    /\ UNCHANGED <<files, loader, clicks, requests, phase, dataset, df, tab, theme_store, app_style, theme_toggle>>

SelectDisorder(v) ==
    /\ phase = "serving"
    /\ v # filters.disorder
    /\ filters' = [filters EXCEPT !.disorder = v]
    /\ out' = NoOutput
    /\ UNCHANGED <<files, loader, clicks, requests, phase, dataset, df, tab, theme_store, app_style, theme_toggle>>

SelectTab(v) ==
    /\ phase = "serving"
    /\ v # tab
    /\ tab' = v
    /\ out' = NoOutput
    /\ UNCHANGED <<files, loader, clicks, requests, phase, dataset, df, filters, theme_store, app_style, theme_toggle>>

Next ==
    \/ \E v \in GenderValues : SelectGender(v)
    \/ \E v \in AgeGroupValues : SelectAgeGroup(v)
    \/ \E v \in OccupationValues : SelectOccupation(v)
    \/ \E v \in DisorderValues : SelectDisorder(v)
    \/ \E v \in TabValues : SelectTab(v)
    \/ \E n_clicks \in 0..1 : toggle_theme(n_clicks) /\ UNCHANGED clicks
    \/ update_summary_cards
    \/ update_sleep_patterns
    \/ update_factor_content
    \/ update_trend_analysis
    \/ update_personalized_insights
    \/ update_dashboard

Spec == Init /\ [][Next]_vars

(***************************************************************************)
(* Derived Column Builder on its own: a table just read, one row for each  *)
(* age from 0 to MaxAge, and the statement that adds age_group to it.      *)
(***************************************************************************)
InitAge ==
    /\ phase = "loading"
    /\ df \in RawAgeTables
    /\ dataset = df
    /\ filters = AllFilters
    /\ tab = "stress"
    /\ theme_store = "light"
    /\ app_style = light_theme
    /\ theme_toggle = "Dark Mode"
    /\ out = NoOutput
    /\ requests = <<>>
    /\ LoadedFromFile

BuildAgeGroups ==
    /\ phase = "loading"
    /\ df' = WithAgeGroups(df)
    /\ dataset' = df'
    /\ phase' = "serving"
    /\ UNCHANGED <<files, loader, clicks, requests, filters, tab, theme_store, app_style, theme_toggle, out>>

NextAge == BuildAgeGroups

SpecAge == InitAge /\ [][NextAge]_vars

(***************************************************************************)
(* Aggregates and Insight Classifier on their own: a table of up to        *)
(* MaxRows rows of which the first hs are above stress 7 (the others at    *)
(* 7), the first la below activity 50 (the others at 50) and the first sd  *)
(* have a disorder, so that every percentage k/n occurs; no filter is set. *)
(***************************************************************************)
CountedTable(n, hs, la, sd) ==
    [i \in 1..n |->
        Row(40, "Male", "Doctor", 70, 7,
            IF i <= hs THEN 8 ELSE 7,
            IF i <= la THEN 49 ELSE 50,
            70, 8000,
            IF i <= sd THEN "Insomnia" ELSE "None",
            "Normal")]

CountedTables ==
    { CountedTable(c[1], c[2], c[3], c[4]) :
        c \in { x \in (0..MaxRows) \X (0..MaxRows) \X (0..MaxRows) \X (0..MaxRows) :
                  x[2] <= x[1] /\ x[3] <= x[1] /\ x[4] <= x[1] } }

InitInsight ==
    /\ phase = "serving"
    /\ df \in {WithAgeGroups(raw) : raw \in CountedTables}
    /\ dataset = df
    /\ filters = AllFilters
    /\ tab = "stress"
    /\ theme_store = "light"
    /\ app_style = light_theme
    /\ theme_toggle = "Dark Mode"
    /\ out = NoOutput
    /\ requests = <<>>
    /\ LoadedFromFile

NextInsight == update_personalized_insights

SpecInsight == InitInsight /\ [][NextInsight]_vars

(***************************************************************************)
(* The end-to-end scenario: the four-filter dashboard started on the       *)
(* Dataset of three Records (Male 5.0 h, Female 8.0 h, Male 6.5 h).        *)
(***************************************************************************)
ScenarioRows ==
    << Row(25, "Male", "Doctor", 50, 3, 9, 20, 78, 4000, "Insomnia", "Overweight"),
       Row(35, "Female", "Nurse", 80, 8, 2, 80, 65, 9000, "None", "Normal"),
       Row(45, "Male", "Nurse", 65, 6, 6, 40, 70, 6000, "None", "Normal Weight") >>

InitScenario ==
    /\ phase = "serving"
    /\ df = WithAgeGroups(ScenarioRows)
    /\ dataset = df
    /\ filters = AllFilters
    /\ tab = "stress"
    /\ theme_store = "light"
    /\ app_style = light_theme
    /\ theme_toggle = "Dark Mode"
    /\ out = NoOutput
    /\ requests = <<>>
    /\ LoadedFromFile

SpecScenario == InitScenario /\ [][Next]_vars

(***************************************************************************)
(* Concurrent requests.  The server runs callbacks in several threads.  A  *)
(* request is given its arguments and takes its copy of df, filtered;      *)
(* later it builds what it returns.  Steps of different requests           *)
(* interleave in any order.                                                *)
(***************************************************************************)
FourFilterCallbacks ==
    {"update_summary_cards", "update_sleep_patterns", "update_factor_content",
     "update_trend_analysis", "update_personalized_insights"}

\* most requests in flight at once
MaxRequests == 2

ConcurrentFilterSpecs ==
    {AllFilters,
     [AllFilters EXCEPT !.gender = "Male"],
     [AllFilters EXCEPT !.occupation = "Doctor"]}

\* the arguments of a request; an argument its callback does not take is held
\* at one value
RequestArgs ==
    { a \in [cb : FourFilterCallbacks \cup {"update_dashboard"},
             filters : ConcurrentFilterSpecs,
             tab : {"stress", "bmi"},
             theme : {"light", "dark"}] :
        /\ a.cb # "update_factor_content" => a.tab = "stress"
        /\ a.cb = "update_dashboard" =>
              a.theme = "light" /\ a.filters.occupation = "All" }

\* mutant: a request in the dark theme skips the filters
SubsetByTheme(a, table) ==
    IF a.cb = "update_dashboard"
    THEN FilterByGender(table, a.filters.gender)
    ELSE IF a.theme = "dark" THEN table ELSE FilterRows(table, a.filters)

\* the first statements of a callback: its own table
Subset(a, table) ==
    IF a.cb = "update_dashboard"
    THEN FilterByGender(table, a.filters.gender)
    ELSE FilterRows(table, a.filters)

\* what the rest of the callback returns, from its own table filtered_df and
\* the shared table as it reads it then
Responses(a, filtered_df, table) ==
    LET theme_colors == ThemeColors(a.theme)
        template == IF a.theme = "dark" THEN "plotly_dark" ELSE "plotly_white"
    IN  CASE a.cb = "update_summary_cards" ->
               {[cb |-> a.cb,
                 raised |-> FALSE,
                 filtered |-> filtered_df,
                 avg_sleep |-> Mean(filtered_df, "sleep_duration", 10),
                 avg_quality |-> Mean(filtered_df, "quality_of_sleep", 1),
                 avg_stress |-> Mean(filtered_df, "stress_level", 1),
                 avg_activity |-> Mean(filtered_df, "physical_activity_level", 1),
                 colors |-> <<theme_colors.accent1, theme_colors.accent2,
                              theme_colors.accent4, theme_colors.accent3>>]}
          [] a.cb = "update_sleep_patterns" ->
               {[cb |-> a.cb,
                 raised |-> FALSE,
                 filtered |-> filtered_df,
                 template |-> template,
                 colors |-> <<theme_colors.accent1, theme_colors.accent2,
                              theme_colors.card>>]}
          [] a.cb = "update_factor_content" ->
               {[cb |-> a.cb,
                 raised |-> FALSE,
                 filtered |-> filtered_df,
                 tab |-> a.tab,
                 plotted |-> IF a.tab \in {"stress", "activity"}
                             THEN filtered_df ELSE Relabelled(filtered_df),
                 template |-> template,
                 colors |-> <<theme_colors.accent1, theme_colors.background,
                              theme_colors.text>>]}
          [] a.cb = "update_trend_analysis" ->
               LET age_analysis == GroupBy(filtered_df, "age", AgeKeys(filtered_df))
                   occupations == OccupationKeys(filtered_df)
               IN  IF Len(occupations) > 1
                   THEN {[cb |-> a.cb,
                          raised |-> FALSE,
                          filtered |-> filtered_df,
                          age_analysis |-> age_analysis,
                          branch |-> "by_occupation",
                          occupation_analysis |-> occupation_analysis,
                          colors |-> <<theme_colors.accent1, theme_colors.accent2,
                                       theme_colors.accent4>>] :
                         occupation_analysis \in
                             SortedByQuality(GroupBy(filtered_df, "occupation", occupations))}
                   ELSE IF Len(filtered_df) = 0
                   THEN {[cb |-> a.cb,
                          raised |-> TRUE,
                          filtered |-> filtered_df,
                          branch |-> "single"]}
                   ELSE {[cb |-> a.cb,
                          raised |-> FALSE,
                          filtered |-> filtered_df,
                          age_analysis |-> age_analysis,
                          branch |-> "single",
                          selected_occupation |-> filtered_df[1].occupation,
                          overall_avg_quality |-> Mean(table, "quality_of_sleep", 1),
                          overall_avg_stress |-> Mean(table, "stress_level", 1),
                          selected_avg_quality |-> Mean(filtered_df, "quality_of_sleep", 1),
                          selected_avg_stress |-> Mean(filtered_df, "stress_level", 1),
                          colors |-> <<theme_colors.accent1, theme_colors.accent2,
                                       theme_colors.accent4>>]}
          [] a.cb = "update_personalized_insights" ->
               LET avg_sleep == Mean(filtered_df, "sleep_duration", 10)
                   avg_quality == Mean(filtered_df, "quality_of_sleep", 1)
                   sleep_disorders_pct == Pct(filtered_df, SelectSeq(filtered_df, HasDisorder))
                   high_stress_pct == Pct(filtered_df, SelectSeq(filtered_df, HighStress))
                   low_activity_pct == Pct(filtered_df, SelectSeq(filtered_df, LowActivity))
               IN  {[cb |-> a.cb,
                     raised |-> FALSE,
                     filtered |-> filtered_df,
                     avg_sleep |-> avg_sleep,
                     avg_quality |-> avg_quality,
                     sleep_disorders_pct |-> sleep_disorders_pct,
                     high_stress_pct |-> high_stress_pct,
                     low_activity_pct |-> low_activity_pct,
                     insights |-> Insights(avg_sleep, avg_quality, high_stress_pct,
                                           low_activity_pct, sleep_disorders_pct),
                     colors |-> <<theme_colors.background, theme_colors.text>>]}
          [] a.cb = "update_dashboard" ->
               {[cb |-> a.cb,
                 raised |-> FALSE,
                 filtered |-> filtered_df]}

InitConcurrent ==
    /\ phase = "serving"
    /\ df = WithAgeGroups(ScenarioRows)
    /\ dataset = df
    /\ filters = AllFilters
    /\ tab = "stress"
    /\ theme_store = "light"
    /\ app_style = light_theme
    /\ theme_toggle = "Dark Mode"
    /\ out = NoOutput
    /\ requests = [i \in 1..MaxRequests |-> [pc |-> "idle"]]
    /\ LoadedFromFile

\* a thread is given a request and runs the callback up to its filtered table
BeginRequest(i, a) ==
    /\ requests[i].pc = "idle"
    /\ requests' = [requests EXCEPT ![i] =
                       [pc |-> "filtered", args |-> a, filtered_df |-> Subset(a, df)]]
    /\ UNCHANGED <<files, loader, clicks, phase, dataset, df, filters, tab, theme_store, app_style,
                   theme_toggle, out>>

\* mutant: the BMI tab relabels df itself when nothing was filtered out
FinishRequestInPlace(i) ==
    /\ requests[i].pc = "filtered"
    /\ \E r \in Responses(requests[i].args, requests[i].filtered_df, df) :
          requests' = [requests EXCEPT ![i] =
                          [pc |-> "done", args |-> requests[i].args, result |-> r]]
    /\ df' = IF /\ requests[i].args.cb = "update_factor_content"
                /\ requests[i].args.tab = "bmi"
                /\ requests[i].filtered_df = df
             THEN Relabelled(df) ELSE df
    /\ UNCHANGED <<files, loader, clicks, phase, dataset, filters, tab, theme_store, app_style,
                   theme_toggle, out>>

\* the callback runs to its return statement
FinishRequest(i) ==
    /\ requests[i].pc = "filtered"
    /\ \E r \in Responses(requests[i].args, requests[i].filtered_df, df) :
          requests' = [requests EXCEPT ![i] =
                          [pc |-> "done", args |-> requests[i].args, result |-> r]]
    /\ UNCHANGED <<files, loader, clicks, phase, dataset, df, filters, tab, theme_store, app_style,
                   theme_toggle, out>>

\* the response is sent and the thread is free again
CloseRequest(i) ==
    /\ requests[i].pc = "done"
    /\ requests' = [requests EXCEPT ![i] = [pc |-> "idle"]]
    /\ UNCHANGED <<files, loader, clicks, phase, dataset, df, filters, tab, theme_store, app_style,
                   theme_toggle, out>>

NextConcurrent ==
    \/ \E i \in 1..MaxRequests : \E a \in RequestArgs : BeginRequest(i, a)
    \/ \E i \in 1..MaxRequests : FinishRequest(i)
    \/ \E i \in 1..MaxRequests : CloseRequest(i)

SpecConcurrent == InitConcurrent /\ [][NextConcurrent]_vars

(***************************************************************************)
(* The theme button.  Its n_clicks is None until the first click; Dash     *)
(* calls toggle_theme once when the page loads and once for every click.   *)
(***************************************************************************)
\* most clicks on the theme button
MaxClicks == 3

InitTheme ==
    /\ phase = "serving"
    /\ df = WithAgeGroups(ScenarioRows)
    /\ dataset = df
    /\ filters = AllFilters
    /\ tab = "stress"
    /\ theme_store = "light"
    /\ app_style = light_theme
    /\ theme_toggle = "Dark Mode"
    /\ out = NoOutput
    /\ requests = <<>>
    /\ files = [primary |-> CsvFile, data |-> Absent]
    /\ loader = [program |-> "Main", data_path |-> "primary", table |-> CsvFile,
                 synthesized |-> FALSE, error |-> "none"]
    /\ clicks = 0

\* the call Dash makes on page load, before any click
InitialCall ==
    /\ clicks = 0
    /\ toggle_theme(clicks)
    /\ UNCHANGED clicks

Click ==
    /\ clicks < MaxClicks
    /\ clicks' = clicks + 1
    /\ toggle_theme(clicks')

NextTheme ==
    \/ InitialCall
    \/ Click
    \/ \E v \in GenderValues : SelectGender(v)
    \/ \E v \in TabValues : SelectTab(v)
    \/ update_summary_cards
    \/ update_sleep_patterns
    \/ update_factor_content
    \/ update_personalized_insights

SpecTheme == InitTheme /\ [][NextTheme]_vars

(***************************************************************************)
(* The dropdown options and the component ids of the four-filter layout.   *)
(***************************************************************************)
\* the column a filter field is compared with
Column(field) == IF field = "disorder" THEN "sleep_disorder" ELSE field

\* create_filter_section: "All" and df[col].unique()
Options(table, col) == {"All"} \cup {table[i][col] : i \in 1..Len(table)}

LayoutIds ==
    {"app-container", "theme-toggle", "gender-filter", "age-filter",
     "occupation-filter", "disorder-filter", "summary-cards",
     "histogram-duration", "sleep-quality-by-duration", "factor-tabs",
     "factor-content", "personalized-insights", "theme-store"}

FilterInputs ==
    {"gender-filter", "age-filter", "occupation-filter", "disorder-filter",
     "theme-store"}

\* the ids in the decorator of a callback
CallbackIds(cb) ==
    CASE cb = "toggle_theme" -> {"app-container", "theme-store", "theme-toggle"}
      [] cb = "update_summary_cards" -> {"summary-cards"} \cup FilterInputs
      [] cb = "update_sleep_patterns" ->
            {"histogram-duration", "sleep-quality-by-duration"} \cup FilterInputs
      [] cb = "update_factor_content" ->
            {"factor-content", "factor-tabs"} \cup FilterInputs
      [] cb = "update_trend_analysis" ->
            {"age-trend-graph", "occupation-analysis"} \cup FilterInputs
      [] cb = "update_personalized_insights" ->
            {"personalized-insights"} \cup FilterInputs

(***************************************************************************)
(* Startup.  Each program reads the input file at import time, before it   *)
(* builds its layout: SleepHealth_Analysis_Main.py looks in the working    *)
(* directory and then in data/, test2.py in the working directory only.    *)
(* Both catch FileNotFoundError alone and then make a random table.        *)
(***************************************************************************)
n_samples_Main == 200
n_samples_test2 == 500

\* the table the except block of SleepHealth_Analysis_Main.py makes
SyntheticMain ==
    [kind |-> "table", origin |-> "Main", columns |-> RecordAttributes,
     n |-> n_samples_Main]

\* the table the except block of test2.py makes: no occupation column
SyntheticTest2 ==
    [kind |-> "table", origin |-> "test2",
     columns |-> RecordAttributes \ {"occupation"}, n |-> n_samples_test2]

Programs == {"Main", "test2"}
Paths == {"primary", "data"}
FileStates == {Absent, Malformed, CsvFile, SyntheticTest2}

NotStarted ==
    [program |-> "none", data_path |-> "none", table |-> NoTable,
     synthesized |-> FALSE, error |-> "none"]

\* os.path.exists
Exists(path) == files[path].kind # "absent"

\* the columns create_filter_section reads for the dropdown options
LayoutColumns(program) ==
    IF program = "Main"
    THEN {"gender", "age_group", "occupation", "sleep_disorder"}
    ELSE {"gender"}

InitStartup ==
    /\ phase = "stopped"
    /\ dataset = <<>>
    /\ df = <<>>
    /\ filters = AllFilters
    /\ tab = "stress"
    /\ theme_store = "light"
    /\ app_style = light_theme
    /\ theme_toggle = "Dark Mode"
    /\ out = NoOutput
    /\ requests = <<>>
    /\ files \in [Paths -> {Absent, Malformed, CsvFile}]
    /\ loader = NotStarted
    /\ clicks = 0

\* someone puts a file at a path, or removes it, while no program runs
PlaceFile(path, f) ==
    /\ phase = "stopped"
    /\ files[path] # f
    /\ files' = [files EXCEPT ![path] = f]
    /\ UNCHANGED <<phase, dataset, df, filters, tab, theme_store, app_style,
                   theme_toggle, out, requests, loader, clicks>>

\* python <program>.py
Start(program) ==
    /\ phase = "stopped"
    /\ phase' = "started"
    /\ loader' = [program |-> program, data_path |-> "primary", table |-> NoTable,
                  synthesized |-> FALSE, error |-> "none"]
    /\ UNCHANGED <<dataset, df, filters, tab, theme_store, app_style, theme_toggle,
                   out, requests, files, clicks>>

\* Main.py 16-19: data_path moves to data/ when the first path holds nothing
resolve_data_path ==
    /\ phase = "started"
    /\ loader.program = "Main"
    /\ phase' = "resolved"
    /\ loader' = [loader EXCEPT !.data_path = IF Exists("primary") THEN "primary" ELSE "data"]
    /\ UNCHANGED <<dataset, df, filters, tab, theme_store, app_style, theme_toggle,
                   out, requests, files, clicks>>

\* mutant: a bare except, so a file that does not parse is replaced as well
read_csv_Main_except_all ==
    /\ phase = "resolved"
    /\ loader.program = "Main"
    /\ LET f == files[loader.data_path]
       IN  IF f.kind \in {"absent", "malformed"}
           THEN /\ loader' = [loader EXCEPT !.table = SyntheticMain,
                                            !.synthesized = TRUE]
                /\ phase' = "loaded"
           ELSE /\ loader' = [loader EXCEPT !.table = f]
                /\ phase' = "loaded"
    /\ UNCHANGED <<dataset, df, filters, tab, theme_store, app_style, theme_toggle,
                   out, requests, files, clicks>>

\* mutant: the except block makes 500 rows, as test2.py does
read_csv_Main_500 ==
    /\ phase = "resolved"
    /\ loader.program = "Main"
    /\ LET f == files[loader.data_path]
       IN  IF f.kind = "absent"
           THEN /\ loader' = [loader EXCEPT !.table =
                                  [SyntheticMain EXCEPT !.n = n_samples_test2],
                                            !.synthesized = TRUE]
                /\ phase' = "loaded"
           ELSE IF f.kind = "malformed"
           THEN /\ loader' = [loader EXCEPT !.error = "ParserError"]
                /\ phase' = "aborted"
           ELSE /\ loader' = [loader EXCEPT !.table = f]
                /\ phase' = "loaded"
    /\ UNCHANGED <<dataset, df, filters, tab, theme_store, app_style, theme_toggle,
                   out, requests, files, clicks>>

\* Main.py 21-44: read_csv; FileNotFoundError is caught and a table of
\* n_samples rows is made, any other exception leaves the module
read_csv_Main ==
    /\ phase = "resolved"
    /\ loader.program = "Main"
    /\ LET f == files[loader.data_path]
       IN  IF f.kind = "absent"
           THEN /\ loader' = [loader EXCEPT !.table = SyntheticMain,
                                            !.synthesized = TRUE]
                /\ phase' = "loaded"
           ELSE IF f.kind = "malformed"
           THEN /\ loader' = [loader EXCEPT !.error = "ParserError"]
                /\ phase' = "aborted"
           ELSE /\ loader' = [loader EXCEPT !.table = f]
                /\ phase' = "loaded"
    /\ UNCHANGED <<dataset, df, filters, tab, theme_store, app_style, theme_toggle,
                   out, requests, files, clicks>>

\* test2.py 12-47: the same with the one path and its own random table
read_csv_test2 ==
    /\ phase = "started"
    /\ loader.program = "test2"
    /\ LET f == files[loader.data_path]
       IN  IF f.kind = "absent"
           THEN /\ loader' = [loader EXCEPT !.table = SyntheticTest2,
                                            !.synthesized = TRUE]
                /\ phase' = "synthesized"
           ELSE IF f.kind = "malformed"
           THEN /\ loader' = [loader EXCEPT !.error = "ParserError"]
                /\ phase' = "aborted"
           ELSE /\ loader' = [loader EXCEPT !.table = f]
                /\ phase' = "loaded"
    /\ UNCHANGED <<dataset, df, filters, tab, theme_store, app_style, theme_toggle,
                   out, requests, files, clicks>>

\* test2.py 50: df.to_csv at the path that was read
to_csv ==
    /\ phase = "synthesized"
    /\ files' = [files EXCEPT ![loader.data_path] = loader.table]
    /\ phase' = "loaded"
    /\ UNCHANGED <<dataset, df, filters, tab, theme_store, app_style, theme_toggle,
                   out, requests, loader, clicks>>

\* Main.py 47-48: df['age_group'] = pd.cut(df['age'], ...)
add_age_group ==
    /\ phase = "loaded"
    /\ loader.program = "Main"
    /\ IF "age" \in loader.table.columns
       THEN /\ loader' = [loader EXCEPT !.table.columns = @ \cup {"age_group"}]
            /\ phase' = "prepared"
       ELSE /\ loader' = [loader EXCEPT !.error = "KeyError"]
            /\ phase' = "aborted"
    /\ UNCHANGED <<dataset, df, filters, tab, theme_store, app_style, theme_toggle,
                   out, requests, files, clicks>>

\* app.layout and the callback decorators: the dropdown options read their
\* columns of df; then the server runs
build_layout ==
    /\ \/ phase = "prepared" /\ loader.program = "Main"
       \/ phase = "loaded" /\ loader.program = "test2"
    /\ IF LayoutColumns(loader.program) \subseteq loader.table.columns
       THEN /\ phase' = "serving"
            /\ UNCHANGED loader
       ELSE /\ loader' = [loader EXCEPT !.error = "KeyError"]
            /\ phase' = "aborted"
    /\ UNCHANGED <<dataset, df, filters, tab, theme_store, app_style, theme_toggle,
                   out, requests, files, clicks>>

\* the process ends
Stop ==
    /\ phase \in {"serving", "aborted"}
    /\ phase' = "stopped"
    /\ loader' = NotStarted
    /\ UNCHANGED <<dataset, df, filters, tab, theme_store, app_style, theme_toggle,
                   out, requests, files, clicks>>

NextStartup ==
    \/ \E path \in Paths : \E f \in FileStates : PlaceFile(path, f)
    \/ \E program \in Programs : Start(program)
    \/ resolve_data_path
    \/ read_csv_Main
    \/ read_csv_test2
    \/ to_csv
    \/ add_age_group
    \/ build_layout
    \/ Stop

SpecStartup == InitStartup /\ [][NextStartup]_vars

(***************************************************************************)
(* Properties.                                                             *)
(***************************************************************************)
\* the reference filter: one pass, a row stays iff it equals the selected
\* value on every field that is not "All"
Satisfies(r, f) ==
    /\ f.gender = "All" \/ r.gender = f.gender
    /\ f.age_group = "All" \/ r.age_group = f.age_group
    /\ f.occupation = "All" \/ r.occupation = f.occupation
    /\ f.disorder = "All" \/ r.sleep_disorder = f.disorder

Reference(table, f) ==
    LET Test(r) == Satisfies(r, f)
    IN  SelectSeq(table, Test)

Range(s) == {s[i] : i \in 1..Len(s)}

\* C1: the subset every callback of the four-filter dashboard computes is the
\* Dataset's rows, in order, that equal the selected value on every field
\* whose constraint is not "All" (the constraints combine with AND).
C1_FilterMatchesReference ==
    out.cb \in FourFilterCallbacks => out.filtered = Reference(df, filters)

C1_Witness ==
    /\ out.cb = "update_personalized_insights"
    /\ filters.gender = "Male"
    /\ filters.occupation = "Nurse"
    /\ Len(df) = 2
    /\ Len(out.filtered) = 1

\* C2: with every filter "All" the filtered subset is the whole Dataset, same
\* Records in the same order, those without an AgeGroup included; the
\* single-filter dashboard does the same for gender "All".
C2_AllReturnsDataset ==
    /\ (out.cb \in FourFilterCallbacks /\ filters = AllFilters) => out.filtered = df
    /\ (out.cb = "update_dashboard" /\ filters.gender = "All") => out.filtered = df

C2_Witness ==
    /\ out.cb = "update_summary_cards"
    /\ filters = AllFilters
    /\ Len(out.filtered) = 2
    /\ out.filtered[1].age_group = NaN
    /\ out.filtered[2].age_group # NaN

\* C3: when the FilterSpec matches no Record, every statistic of the
\* Aggregate Engine is a defined "no data" result and never NaN.
C3_EmptySubsetStatisticsDefined ==
    /\ (out.cb = "update_summary_cards" /\ Len(out.filtered) = 0) =>
          /\ ~out.avg_sleep.nan
          /\ ~out.avg_quality.nan
          /\ ~out.avg_stress.nan
          /\ ~out.avg_activity.nan
    /\ (out.cb = "update_personalized_insights" /\ Len(out.filtered) = 0) =>
          /\ ~out.avg_sleep.nan
          /\ ~out.avg_quality.nan
          /\ ~out.sleep_disorders_pct.nan
          /\ ~out.high_stress_pct.nan
          /\ ~out.low_activity_pct.nan

\* C4: for a FilterSpec that matches no Record, every callback of the
\* four-filter dashboard completes and returns without raising.
C4_EmptySubsetNoCallbackRaises ==
    (out.cb \in FourFilterCallbacks /\ Len(out.filtered) = 0) => ~out.raised

\* C5: on an empty subset the Insight Classifier puts the undefined means in
\* no tier: neither "Healthy Sleep Duration" nor "Good Sleep Quality" is emitted.
C5_EmptySubsetNotClassified ==
    (out.cb = "update_personalized_insights" /\ Len(out.filtered) = 0) =>
        /\ "Healthy Sleep Duration" \notin Range(out.insights)
        /\ "Good Sleep Quality" \notin Range(out.insights)

\* C6: age bucketing is total and non-overlapping: every age from 0 to 130
\* lies in exactly one bin and carries one of the five labels.
C6_AgeBucketingTotal ==
    phase = "serving" =>
        \A i \in 1..Len(df) :
            /\ Cardinality(LabelsOf(df[i].age)) = 1
            /\ df[i].age_group \in Range(Labels)

\* the label of an age when each bin holds its lower bound, not its upper one,
\* and the last bin holds 100 as well
LeftClosedLabel(a) ==
    IF a < 30 THEN "Under 30"
    ELSE IF a < 40 THEN "30-40"
    ELSE IF a < 50 THEN "40-50"
    ELSE IF a < 60 THEN "50-60"
    ELSE "Over 60"

\* the label of an age when each bin holds its upper bound, not its lower one
RightClosedLabel(a) ==
    IF a <= 0 \/ a > 100 THEN NaN
    ELSE IF a <= 30 THEN "Under 30"
    ELSE IF a <= 40 THEN "30-40"
    ELSE IF a <= 50 THEN "40-50"
    ELSE IF a <= 60 THEN "50-60"
    ELSE "Over 60"

C8_BoundaryAgesLowerLabel ==
    phase = "serving" =>
        \A i \in 1..Len(df) : \A k \in 1..4 :
            /\ df[i].age = Bins[k + 1] => df[i].age_group = Labels[k]
            /\ df[i].age = Bins[k + 1] + 1 => df[i].age_group = Labels[k + 1]

C8_Witness ==
    /\ phase = "serving"
    /\ df[1].age = 30
    /\ df[1].age_group = "Under 30"

\* C9: the duration tier follows the subset's mean sleep_duration m exactly:
\* m < 6 alert, 6 <= m < 7 concern, m >= 7 healthy (sums in tenths of an hour).
C9_DurationTierExact ==
    (out.cb = "update_personalized_insights" /\ Len(out.filtered) > 0) =>
        LET n == Len(out.filtered)
            total == Sum(out.filtered, "sleep_duration")
        IN  /\ total < 60 * n => out.insights[1] = "Sleep Duration Alert"
            /\ (60 * n <= total /\ total < 70 * n) =>
                   out.insights[1] = "Sleep Duration Concern"
            /\ total >= 70 * n => out.insights[1] = "Healthy Sleep Duration"

\* a mean of exactly 6.0 over two Records, classified "concern"
C9_Witness ==
    /\ out.cb = "update_personalized_insights"
    /\ Len(out.filtered) = 2
    /\ Sum(out.filtered, "sleep_duration") = 120
    /\ out.insights[1] = "Sleep Duration Concern"

\* C10: the quality tier follows the subset's mean quality_of_sleep q exactly:
\* q < 5 poor, 5 <= q < 7 moderate, q >= 7 good.
C10_QualityTierExact ==
    (out.cb = "update_personalized_insights" /\ Len(out.filtered) > 0) =>
        LET n == Len(out.filtered)
            total == Sum(out.filtered, "quality_of_sleep")
        IN  /\ total < 5 * n => out.insights[2] = "Poor Sleep Quality"
            /\ (5 * n <= total /\ total < 7 * n) =>
                   out.insights[2] = "Moderate Sleep Quality"
            /\ total >= 7 * n => out.insights[2] = "Good Sleep Quality"

\* a mean of exactly 5 over two Records, classified "moderate"
C10_Witness ==
    /\ out.cb = "update_personalized_insights"
    /\ Len(out.filtered) = 2
    /\ Sum(out.filtered, "quality_of_sleep") = 10
    /\ out.insights[2] = "Moderate Sleep Quality"

\* the number of rows above stress 7, below activity 50, with a disorder
StressCount(rows) == Cardinality({i \in 1..Len(rows) : rows[i].stress_level > 7})
ActivityCount(rows) == Cardinality({i \in 1..Len(rows) : rows[i].physical_activity_level < 50})
DisorderCount(rows) == Cardinality({i \in 1..Len(rows) : rows[i].sleep_disorder # "None"})

\* C11: each warning is emitted iff its percentage strictly exceeds its
\* threshold (stress > 50, activity > 60, disorder > 30); a percentage equal
\* to the threshold, or one over no rows, emits none.
C11_WarningsIffExceeded ==
    out.cb = "update_personalized_insights" =>
        LET rows == out.filtered
            n == Len(rows)
        IN  /\ "High Stress Levels" \in Range(out.insights)
                <=> (n > 0 /\ 100 * StressCount(rows) > 50 * n)
            /\ "Low Physical Activity" \in Range(out.insights)
                <=> (n > 0 /\ 100 * ActivityCount(rows) > 60 * n)
            /\ "Sleep Disorders Present" \in Range(out.insights)
                <=> (n > 0 /\ 100 * DisorderCount(rows) > 30 * n)

\* every percentage sits on its threshold (50, 60, 30) and nothing warns
C11_Witness ==
    /\ out.cb = "update_personalized_insights"
    /\ Len(out.filtered) = 10
    /\ StressCount(out.filtered) = 5
    /\ ActivityCount(out.filtered) = 6
    /\ DisorderCount(out.filtered) = 3
    /\ Len(out.insights) = 2

DurationTiers ==
    {"Sleep Duration Alert", "Sleep Duration Concern", "Healthy Sleep Duration"}
QualityTiers ==
    {"Poor Sleep Quality", "Moderate Sleep Quality", "Good Sleep Quality"}
WarningOrder ==
    <<"High Stress Levels", "Low Physical Activity", "Sleep Disorders Present">>

\* the place of a warning in the fixed order
WarningIndex(w) == CHOOSE k \in 1..Len(WarningOrder) : WarningOrder[k] = w

\* C12: the insight list is one duration tier, then one quality tier, then
\* the warnings in the order stress, activity, disorder: 2 to 5 entries and
\* never two tiers of one kind.
C12_InsightOrderFixed ==
    out.cb = "update_personalized_insights" =>
        LET l == out.insights
        IN  /\ Len(l) >= 2 /\ Len(l) <= 5
            /\ l[1] \in DurationTiers
            /\ l[2] \in QualityTiers
            /\ Cardinality({i \in 1..Len(l) : l[i] \in DurationTiers}) = 1
            /\ Cardinality({i \in 1..Len(l) : l[i] \in QualityTiers}) = 1
            /\ \A i \in 3..Len(l) : l[i] \in Range(WarningOrder)
            /\ \A i, j \in 3..Len(l) :
                  i < j => WarningIndex(l[i]) < WarningIndex(l[j])

\* all three warnings after the two tiers
C12_Witness ==
    /\ out.cb = "update_personalized_insights"
    /\ Len(out.insights) = 5
    /\ out.insights[3] = "High Stress Levels"
    /\ out.insights[5] = "Sleep Disorders Present"

\* the insights of the scenario Dataset filtered by gender = Male
MaleScenario ==
    /\ df = WithAgeGroups(ScenarioRows)
    /\ filters = [AllFilters EXCEPT !.gender = "Male"]
    /\ out.cb = "update_personalized_insights"

\* the 2 Male Records, mean sleep_duration 5.75 and mean quality 4.5
MaleScenarioMeans ==
    /\ Len(out.filtered) = 2
    /\ \A i \in 1..2 : out.filtered[i].gender = "Male"
    /\ ~out.avg_sleep.nan /\ 100 * out.avg_sleep.num = 575 * out.avg_sleep.den
    /\ ~out.avg_quality.nan /\ 10 * out.avg_quality.num = 45 * out.avg_quality.den

\* C13 as stated: gender = Male yields the 2 Male Records, mean 5.75 in the
\* "concern" duration tier and mean quality 4.5 in the "poor" tier.
C13_ScenarioConcern ==
    MaleScenario =>
        /\ MaleScenarioMeans
        /\ out.insights[1] = "Sleep Duration Concern"
        /\ out.insights[2] = "Poor Sleep Quality"

\* C13 as amended: mean 5.75 is below 6 and falls in the "alert" duration
\* tier; mean quality 4.5 in the "poor" tier.
C13_ScenarioAlert ==
    MaleScenario =>
        /\ MaleScenarioMeans
        /\ out.insights[1] = "Sleep Duration Alert"
        /\ out.insights[2] = "Poor Sleep Quality"

C13_Witness ==
    /\ MaleScenario
    /\ Len(out.filtered) = 2
    /\ out.insights[1] \in DurationTiers

\* 50% of the Male Records have a disorder, 50% are above stress 7
MaleScenarioPercentages ==
    /\ ~out.sleep_disorders_pct.nan
    /\ out.sleep_disorders_pct.num = 50 * out.sleep_disorders_pct.den
    /\ ~out.high_stress_pct.nan
    /\ out.high_stress_pct.num = 50 * out.high_stress_pct.den

\* C14 as stated: both percentages are 50%, and both the disorder-prevalence
\* and the high-stress warning are emitted.
C14_ScenarioBothWarnings ==
    MaleScenario =>
        /\ MaleScenarioPercentages
        /\ "Sleep Disorders Present" \in Range(out.insights)
        /\ "High Stress Levels" \in Range(out.insights)

\* C14 as amended: both percentages are 50%; the disorder-prevalence warning
\* is emitted (50 > 30), the high-stress warning is not (50 is not above 50).
C14_ScenarioDisorderWarningOnly ==
    MaleScenario =>
        /\ MaleScenarioPercentages
        /\ "Sleep Disorders Present" \in Range(out.insights)
        /\ "High Stress Levels" \notin Range(out.insights)

C14_Witness ==
    /\ MaleScenario
    /\ StressCount(out.filtered) = 1
    /\ DisorderCount(out.filtered) = 1
    /\ Len(out.insights) = 4

\* C15: on a subset that is not empty each percentage is 100 * count / size
\* for disorder # None, stress > 7 and activity < 50, and lies in [0, 100];
\* a Record at stress exactly 7 or activity exactly 50 is not counted.
C15_PercentagesExact ==
    (out.cb = "update_personalized_insights" /\ Len(out.filtered) > 0) =>
        LET rows == out.filtered
            n == Len(rows)
            Is(pct, count) ==
                /\ ~pct.nan
                /\ pct.num * n = 100 * count * pct.den
                /\ Ge(pct, 0) /\ Le(pct, 100)
        IN  /\ Is(out.sleep_disorders_pct, DisorderCount(rows))
            /\ Is(out.high_stress_pct, StressCount(rows))
            /\ Is(out.low_activity_pct, ActivityCount(rows))

\* a subset whose only Record is at stress 7 and activity 50
C15_Witness ==
    /\ out.cb = "update_personalized_insights"
    /\ Len(out.filtered) = 1
    /\ out.filtered[1].stress_level = 7
    /\ out.filtered[1].physical_activity_level = 50
    /\ out.high_stress_pct.num = 0
    /\ out.low_activity_pct.num = 0

OccupationsIn(rows) == {rows[i].occupation : i \in 1..Len(rows)}

\* the Records of one occupation
OfOccupation(rows, o) ==
    LET Member(r) == r.occupation = o
    IN  SelectSeq(rows, Member)

\* m is the mean of column col, counted in 1/unit, over rows
IsMeanOf(m, rows, col, unit) ==
    /\ ~m.nan
    /\ m.num * unit * Len(rows) = Sum(rows, col) * m.den

C17_FallbackExactlyOneOccupation ==
    out.cb = "update_trend_analysis" =>
        /\ out.branch = "single" <=> Cardinality(OccupationsIn(out.filtered)) = 1
        /\ out.branch = "single" =>
              /\ ~out.raised
              /\ IsMeanOf(out.selected_avg_quality, out.filtered, "quality_of_sleep", 1)
              /\ IsMeanOf(out.selected_avg_stress, out.filtered, "stress_level", 1)
              /\ IsMeanOf(out.overall_avg_quality, df, "quality_of_sleep", 1)
              /\ IsMeanOf(out.overall_avg_stress, df, "stress_level", 1)

\* C18: whatever filter changes, theme toggles and tab changes came before,
\* what a callback returns is computed from the original Dataset filtered by
\* the current FilterSpec alone.
C18_ResultsFromDatasetAndFilterSpec ==
    LET rows == Reference(dataset, filters)
    IN  /\ out.cb \in FourFilterCallbacks => out.filtered = rows
        /\ out.cb = "update_summary_cards" =>
              /\ out.avg_sleep = Mean(rows, "sleep_duration", 10)
              /\ out.avg_quality = Mean(rows, "quality_of_sleep", 1)
              /\ out.avg_stress = Mean(rows, "stress_level", 1)
              /\ out.avg_activity = Mean(rows, "physical_activity_level", 1)
        /\ out.cb = "update_personalized_insights" =>
              /\ out.avg_sleep = Mean(rows, "sleep_duration", 10)
              /\ out.avg_quality = Mean(rows, "quality_of_sleep", 1)
              /\ out.sleep_disorders_pct = Pct(rows, SelectSeq(rows, HasDisorder))
              /\ out.high_stress_pct = Pct(rows, SelectSeq(rows, HighStress))
              /\ out.low_activity_pct = Pct(rows, SelectSeq(rows, LowActivity))
              /\ out.insights = Insights(out.avg_sleep, out.avg_quality,
                                         out.high_stress_pct, out.low_activity_pct,
                                         out.sleep_disorders_pct)

\* summary cards of a proper subset, after the theme was toggled, the tab
\* changed and at least two filters moved from "All"
C18_Witness ==
    /\ out.cb = "update_summary_cards"
    /\ theme_store = "dark"
    /\ tab = "bmi"
    /\ filters.gender # "All" /\ filters.disorder # "All"
    /\ Len(out.filtered) = 1
    /\ Len(dataset) = 2

\* C19: the shared table df is never written after startup: whatever
\* callbacks ran, in either dashboard, it has the Records, order and column
\* values of the Dataset; the BMI tab relabels only its filtered copy.
C19_DatasetNeverMutated == df = dataset

\* the BMI tab plotted relabelled rows of the whole table
C19_Witness ==
    /\ out.cb = "update_factor_content"
    /\ out.tab = "bmi"
    /\ out.filtered = df
    /\ \E i \in 1..Len(df) :
          /\ df[i].bmi_category = "Normal"
          /\ out.plotted[i].bmi_category = "Underweight"

\* C20: whatever the interleaving of the requests in flight, a request
\* returns what it would return running alone on the Dataset.
C20_ConcurrentSameAsAlone ==
    \A i \in 1..Len(requests) :
        requests[i].pc = "done" =>
            requests[i].result \in
                Responses(requests[i].args, Subset(requests[i].args, dataset), dataset)

\* a BMI-tab request has returned while a request with another FilterSpec and
\* theme is between its filter and its return
C20_Witness ==
    \E i, j \in 1..Len(requests) :
        /\ requests[i].pc = "done"
        /\ requests[i].args.cb = "update_factor_content"
        /\ requests[i].args.tab = "bmi"
        /\ requests[i].result.plotted # requests[i].result.filtered
        /\ requests[j].pc = "filtered"
        /\ requests[j].args.filters # requests[i].args.filters
        /\ requests[j].args.theme # requests[i].args.theme

\* the phases of a program that has passed its read_csv
PastRead == {"synthesized", "loaded", "prepared", "serving", "aborted"}

\* the paths a program looks at
CheckedPaths(program) == IF program = "Main" THEN {"primary", "data"} ELSE {"primary"}

\* this run has written its table to the path it read
HasWritten ==
    loader.synthesized /\ loader.program = "test2" /\ phase # "synthesized"

\* C21: with no file at any path the program checks, startup does not fail:
\* the loader makes a table of 200 rows (four-filter dashboard) or 500 rows
\* (single-filter dashboard) and the program goes on to its layout.
C21_AbsentFileSynthesized ==
    phase \in PastRead =>
        /\ ((~HasWritten /\ \A path \in CheckedPaths(loader.program) : ~Exists(path))
               => loader.synthesized)
        /\ loader.synthesized =>
              /\ phase # "aborted"
              /\ loader.table.kind = "table"
              /\ loader.table.n = IF loader.program = "Main"
                                  THEN n_samples_Main ELSE n_samples_test2

C21_Witness ==
    /\ phase = "serving"
    /\ loader.program = "Main"
    /\ loader.synthesized
    /\ loader.table.n = 200
    /\ ~Exists("primary") /\ ~Exists("data")

\* C22: a synthesized Dataset is written to the input path, so the next
\* start finds the file; in both dashboards.
C22_SyntheticPersisted ==
    (phase \in {"loaded", "prepared", "serving"} /\ loader.synthesized) =>
        /\ files[loader.data_path].kind = "table"
        /\ files[loader.data_path].origin = loader.program

\* C23: a synthesized Dataset has every Record attribute, in both
\* dashboards, so the other dashboard can load it and start.
C23_SyntheticSameSchema ==
    /\ loader.synthesized => RecordAttributes \subseteq loader.table.columns
    /\ (loader.table.kind = "table" /\ ~loader.synthesized
           /\ loader.table.origin \in Programs) => phase # "aborted"

\* C24: a file that exists and does not parse aborts startup: the parse
\* failure leaves the loader, nothing is synthesized and there is no Dataset.
C24_MalformedAborts ==
    phase \in PastRead =>
        /\ files[loader.data_path].kind = "malformed" =>
              /\ phase = "aborted"
              /\ loader.error = "ParserError"
              /\ loader.table = NoTable
              /\ ~loader.synthesized
        /\ loader.error = "ParserError" => files[loader.data_path].kind = "malformed"

\* the first path holds a file that does not parse and data/ a good one
C24_Witness ==
    /\ phase = "aborted"
    /\ loader.program = "Main"
    /\ loader.error = "ParserError"
    /\ files["primary"] = Malformed
    /\ files["data"] = CsvFile

\* C25: the loader uses the file at the primary location whenever it exists,
\* the file in the 'data' subdirectory when only that one exists, and
\* synthesizes only when neither exists.
C25_PrimaryThenFallback ==
    (phase \in PastRead /\ ~HasWritten) =>
        /\ Exists("primary") => loader.data_path = "primary"
        /\ (~Exists("primary") /\ Exists("data")) => loader.data_path = "data"
        /\ (files[loader.data_path].kind = "table" /\ phase # "aborted") =>
              loader.table.origin = files[loader.data_path].origin
        /\ loader.synthesized <=> (~Exists("primary") /\ ~Exists("data"))

\* C26: the stored theme starts 'light'; the call with no click changes
\* nothing; after n clicks the theme is 'dark' iff n is odd; the button names
\* the other mode and the container style has the colours of the stored theme.
C26_ThemeToggleStateMachine ==
    /\ theme_store = IF clicks % 2 = 1 THEN "dark" ELSE "light"
    /\ theme_toggle = IF theme_store = "light" THEN "Dark Mode" ELSE "Light Mode"
    /\ app_style = IF theme_store = "light" THEN light_theme ELSE dark_theme

\* two clicks: dark and back to light
C26_Witness ==
    /\ clicks = 2
    /\ theme_store = "light"
    /\ theme_toggle = "Dark Mode"
    /\ app_style = light_theme

\* what a summary-card or insight result says apart from its colours
Statistics(r) ==
    IF r.cb = "update_summary_cards"
    THEN <<r.filtered, r.avg_sleep, r.avg_quality, r.avg_stress, r.avg_activity>>
    ELSE <<r.filtered, r.avg_sleep, r.avg_quality, r.sleep_disorders_pct,
           r.high_stress_pct, r.low_activity_pct, r.insights>>

\* C27: two runs of the summary-card or insight callback with the same
\* FilterSpec that differ in the theme give the same subset, means,
\* percentages, tiers and warnings.
C27_ThemeNotInStatistics ==
    \A i, j \in 1..Len(requests) :
        (/\ requests[i].pc = "done" /\ requests[j].pc = "done"
         /\ requests[i].args.cb \in {"update_summary_cards", "update_personalized_insights"}
         /\ requests[j].args.cb = requests[i].args.cb
         /\ requests[j].args.filters = requests[i].args.filters)
        => Statistics(requests[i].result) = Statistics(requests[j].result)

\* the insights of the Male Records in both themes: only the colours differ
C27_Witness ==
    \E i, j \in 1..Len(requests) :
        /\ requests[i].pc = "done" /\ requests[j].pc = "done"
        /\ requests[i].args.cb = "update_personalized_insights"
        /\ requests[j].args.cb = "update_personalized_insights"
        /\ requests[i].args.filters.gender = "Male"
        /\ requests[j].args.filters.gender = "Male"
        /\ requests[i].args.theme = "light" /\ requests[j].args.theme = "dark"
        /\ requests[i].result.colors # requests[j].result.colors
        /\ Len(requests[i].result.filtered) = 2

\* C28: with age group, occupation and disorder "All", the four-filter
\* dashboard selects what the single-filter dashboard selects for the same
\* gender value; a cleared dropdown (None) selects every Record in both.
C28_DashboardsAgreeOnGender ==
    (/\ out.cb \in FourFilterCallbacks
     /\ filters.age_group = "All" /\ filters.occupation = "All"
     /\ filters.disorder = "All")
    => /\ out.filtered = FilterByGender(df, filters.gender)
       /\ filters.gender = PyNone => out.filtered = df

\* C29: every dropdown option other than "All", chosen alone, selects at
\* least one Record.
C29_EveryOptionSelects ==
    \A field \in DOMAIN AllFilters :
        \A v \in Options(df, Column(field)) \ {"All"} :
            Len(FilterRows(df, [AllFilters EXCEPT ![field] = v])) > 0

\* C30: every id in the decorator of a registered callback is in the layout,
\* so what a callback returns reaches the page.
C30_CallbackIdsInLayout ==
    /\ CallbackIds("toggle_theme") \subseteq LayoutIds
    /\ out.cb \in FourFilterCallbacks => CallbackIds(out.cb) \subseteq LayoutIds

====
